---- MODULE Spec2Model ----
(***************************************************************************)
(* A model of my_disk_cleaner.py: the directory-size cache                 *)
(* (directory_size_cache), get_directory_size, the scan worker             *)
(* (_get_entries_process) and the event handlers of DiskCleanerApp that    *)
(* start, cancel and consume scans.                                        *)
(***************************************************************************)
EXTENDS Integers, Sequences, FiniteSets, TLC

(***************************************************************************)
(* Bounds of the model.                                                    *)
(***************************************************************************)
\* processes the application may start in one run
MaxWorkers == 2
\* changes made to the filesystem by other programs
MaxMut == 1
\* failures of the cache database (sqlite3 raising)
MaxFail == 1
\* uses of the Clear Cache button
MaxClear == 1
\* rows selected for one deletion
MaxSel == 1
\* uses of the Delete Selected Items button
MaxDelete == 1
\* scans the scan engine is asked for, one after the other
MaxScans == 2
\* paths in one call of delete_items
MaxItems == 2

(***************************************************************************)
(* Paths.  A path is the sequence of its components; None (the empty       *)
(* sequence) stands for Python's None, the value of selected_dir_path in   *)
(* the target-directories view.                                            *)
(***************************************************************************)
None == <<>>

\* Python's None where an int is expected (a missing row, an exception in
\* place of a value), and the "-" shown for an unknown size
NoInt == 0 - 1

A == <<"a">>
AD == <<"a", "d">>
ADE == <<"a", "d", "e">>
ADEH == <<"a", "d", "e", "h">>
ADF == <<"a", "d", "f">>
ADU == <<"a", "d", "u">>
AG == <<"a", "g">>
AL == <<"a", "l">>
AS == <<"a", "s">>
B == <<"b">>
M == <<"m">>

\* every node a tree of the model may hold, in the order scandir lists them
NodeOrder == <<A, AD, ADE, ADEH, ADF, ADU, AG, AL, AS, B>>
Nodes == {NodeOrder[i] : i \in 1..Len(NodeOrder)}

\* what a node is when it exists
Kind(p) ==
  CASE p \in {A, AD, ADE} -> "dir"
    [] p \in {ADEH, ADF, ADU, AG, B} -> "file"
    [] p = AL -> "symfile"
    [] p = AS -> "symdir"
    [] OTHER -> "none"

\* st_size of a regular file; for the symbolic link AL, of the file it points
\* to (a large file outside the trees of the model)
FileSize(p) ==
  CASE p = ADEH -> 4
    [] p = ADF -> 2
    [] p = AG -> 1
    [] p = B -> 16
    [] p = ADU -> 32
    [] p = AL -> 64
    [] OTHER -> 0

\* the directory the symbolic link AS points to
LinkTarget(p) == ADE

\* files on which os.stat raises (a directory listed without search permission)
StatFails == {ADU}

\* the paths that can be keys of directory_size_cache: the directories, and
\* the file B, which the target-directories view lists as a directory (line
\* 557) and a double click can make selected_dir_path
CacheKeys == {A, AD, ADE, AS, B}

\* rows of target_directories for this platform (load_target_directories)
TargetDirs == <<A, B, M>>

VARIABLES
  exists,      \* filesystem: the nodes that exist
  mtime,       \* filesystem: int(st_mtime) of each directory
  cache,       \* table directory_size_cache: path -> entry
  app,         \* the fields of DiskCleanerApp and its widgets
  procs,       \* the processes started so far, in order
  queues,      \* the multiprocessing.Queue of each process
  env          \* history of the run (never read by the program)

vars == <<exists, mtime, cache, app, procs, queues, env>>

(***************************************************************************)
(* os.path                                                                 *)
(***************************************************************************)
dirname(p) == IF Len(p) = 0 THEN p ELSE SubSeq(p, 1, Len(p) - 1)

basename(p) == p[Len(p)]

\* str.startswith on paths
startswith(p, q) == Len(q) <= Len(p) /\ SubSeq(p, 1, Len(q)) = q

\* the node a path names once the symbolic links of its directory part are
\* followed (the last component is not followed)
Lres(p) ==
  IF Len(p) > Len(AS) /\ startswith(p, AS)
  THEN LinkTarget(AS) \o SubSeq(p, Len(AS) + 1, Len(p))
  ELSE p

\* os.lstat succeeds
lexists(p) ==
  /\ Lres(p) \in exists
  /\ (Len(p) > Len(AS) /\ startswith(p, AS)) => AS \in exists

islink(p) == lexists(p) /\ Kind(Lres(p)) \in {"symfile", "symdir"}

\* the node os.stat reaches (the last component followed too)
Final(p) == IF Kind(Lres(p)) = "symdir" THEN LinkTarget(Lres(p)) ELSE Lres(p)

\* os.stat succeeds
StatOk(p) ==
  /\ lexists(p)
  /\ Final(p) \in exists
  /\ Final(p) \notin StatFails

\* os.path.exists
path_exists(p) == StatOk(p)

isdir(p) == StatOk(p) /\ Kind(Final(p)) = "dir"

\* os.path.getsize, called where StatOk holds
getsize(p) == FileSize(Final(p))

\* int(os.path.getmtime(p)); NoInt stands for the exception
getmtime(p) ==
  IF ~StatOk(p) THEN NoInt
  ELSE IF Kind(Final(p)) = "dir" THEN mtime[Final(p)] ELSE 0

\* the nodes directly under directory node d, in listing order
ChildNodes(d) ==
  SelectSeq(NodeOrder, LAMBDA n : dirname(n) = d /\ n \in exists)

\* os.listdir(p) joined with p, where isdir(p)
listdir(p) ==
  LET cs == ChildNodes(Final(p))
  IN IF Len(cs) = 0 THEN <<>>
     ELSE [i \in 1..Len(cs) |-> p \o <<basename(cs[i])>>]

\* DirEntry.is_dir(): from the entry's type, following a symbolic link
entry_is_dir(p) ==
  \/ Kind(Lres(p)) = "dir"
  \/ Kind(Lres(p)) = "symdir" /\ LinkTarget(Lres(p)) \in exists

\* os.walk(top) with followlinks=False: the file paths (root joined with each
\* name of files) in the order the loop of get_directory_size visits them
RECURSIVE walk(_)
RECURSIVE walk_each(_)
walk(top) ==
  IF ~isdir(top) THEN <<>>
  ELSE
    LET es == listdir(top)
        files == SelectSeq(es, LAMBDA e : ~entry_is_dir(e))
        dirs == SelectSeq(es, LAMBDA e : entry_is_dir(e) /\ ~islink(e))
    IN files \o walk_each(dirs)

\* the recursion of os.walk into each directory of dirs, in order
walk_each(dirs) ==
  IF Len(dirs) = 0 THEN <<>> ELSE walk(Head(dirs)) \o walk_each(Tail(dirs))

(***************************************************************************)
(* get_directory_size                                                      *)
(***************************************************************************)
\* a progress message is put every ProgressEvery counted files
ProgressEvery == 100

\* no row of directory_size_cache for a path.  Beside size and mtime an entry
\* carries its history: the process that wrote it (0: the application itself),
\* the serial number of that process's walk, the number of cache clears before
\* the write
NoEntry == [size |-> NoInt, mtime |-> NoInt, by |-> NoInt, walk |-> 0, epoch |-> 0]

\* dir_path_to_size = {}
NoSizes == [k \in CacheKeys |-> NoInt]

\* lines 242-251: the ancestors of file_path up to and including path
RECURSIVE ancestors_of(_, _)
ancestors_of(ancestor, path) ==
  LET a == dirname(ancestor)
  IN IF startswith(a, path)
     THEN IF a = path THEN <<a>> ELSE <<a>> \o ancestors_of(a, path)
     ELSE <<>>

\* add_sizes adding the size to the directory of the file alone
add_sizes_parent(d, ancestors, size) ==
  IF Len(ancestors) = 0 THEN d
  ELSE [d EXCEPT ![Head(ancestors)] = (IF @ = NoInt THEN 0 ELSE @) + size]

\* lines 252-254: size added to dir_path_to_size of each ancestor
RECURSIVE add_sizes(_, _, _)
add_sizes(d, ancestors, size) ==
  IF Len(ancestors) = 0 THEN d
  ELSE LET k == Head(ancestors)
       IN add_sizes([d EXCEPT ![k] = (IF @ = NoInt THEN 0 ELSE @) + size],
                    Tail(ancestors), size)

\* visit_file without the islink test of line 228: a link is sized as its target
visit_file_links(acc, file_path, path) ==
  IF ~StatOk(file_path) THEN acc
  ELSE
    LET size == getsize(file_path)
        count == acc.total_count + 1
    IN [total_size |-> acc.total_size + size,
        total_count |-> count,
        progress |-> IF count % ProgressEvery = 0
                     THEN Append(acc.progress, file_path) ELSE acc.progress,
        dir_path_to_size |->
          add_sizes(acc.dir_path_to_size, ancestors_of(file_path, path), size)]

\* lines 226-256: the body of the loop for one file; a symbolic link is
\* skipped, and a file whose stat raises leaves everything as it was
visit_file(acc, file_path, path) ==
  IF islink(file_path) THEN acc
  ELSE IF ~StatOk(file_path) THEN acc
  ELSE
    LET size == getsize(file_path)
        count == acc.total_count + 1
    IN [total_size |-> acc.total_size + size,
        total_count |-> count,
        progress |-> IF count % ProgressEvery = 0
                     THEN Append(acc.progress, file_path) ELSE acc.progress,
        dir_path_to_size |->
          add_sizes(acc.dir_path_to_size, ancestors_of(file_path, path), size)]

\* visit_files ending the walk at the first file whose stat raises
RECURSIVE visit_files_failfast(_, _, _)
visit_files_failfast(acc, files, path) ==
  IF Len(files) = 0 THEN acc
  ELSE IF ~islink(Head(files)) /\ ~StatOk(Head(files)) THEN acc
  ELSE visit_files_failfast(visit_file(acc, Head(files), path), Tail(files), path)

RECURSIVE visit_files(_, _, _)
visit_files(acc, files, path) ==
  IF Len(files) = 0 THEN acc
  ELSE visit_files(visit_file(acc, Head(files), path), Tail(files), path)

\* lines 220-256: the walk of path
gds_walk(path) ==
  visit_files([total_size |-> 0, total_count |-> 0, progress |-> <<>>,
               dir_path_to_size |-> NoSizes],
              walk(path), path)

\* gds_lookup answering 0 when the database raises
gds_lookup_zero(path, m, c, ok) ==
  IF ~ok THEN 0
  ELSE IF c[path].size # NoInt /\ c[path].mtime = m THEN c[path].size ELSE NoInt

\* lines 205-218: the cached size of path, or NoInt.  ok: the database answers
gds_lookup(path, m, c, ok) ==
  IF ok /\ c[path].size # NoInt /\ c[path].mtime = m THEN c[path].size ELSE NoInt

\* gds_batch storing the time of the write, later than any mtime read before
\* it, in the row of path
gds_batch_now(c, path, w, m, ok, by, serial, epoch) ==
  IF ~ok THEN c
  ELSE [k \in CacheKeys |->
         IF k = path
         THEN [size |-> w.total_size, mtime |-> m + 1,
               by |-> by, walk |-> serial, epoch |-> epoch]
         ELSE IF w.dir_path_to_size[k] # NoInt /\ getmtime(k) # NoInt
         THEN [size |-> w.dir_path_to_size[k], mtime |-> getmtime(k),
               by |-> by, walk |-> serial, epoch |-> epoch]
         ELSE c[k]]

\* gds_batch without a transaction: a failure before the row of path leaves
\* the rows written before it in the table
gds_batch_partial(c, path, w, m, ok, by, serial, epoch) ==
  [k \in CacheKeys |->
     IF k = path
     THEN IF ok THEN [size |-> w.total_size, mtime |-> m,
                      by |-> by, walk |-> serial, epoch |-> epoch]
          ELSE c[k]
     ELSE IF w.dir_path_to_size[k] # NoInt /\ getmtime(k) # NoInt
     THEN [size |-> w.dir_path_to_size[k], mtime |-> getmtime(k),
           by |-> by, walk |-> serial, epoch |-> epoch]
     ELSE c[k]]

\* lines 258-287: the batch written after a walk: one row for every key of
\* dir_path_to_size whose mtime can be read now, then the row of path itself
\* with the mtime m read before the walk.  A failure leaves the table as it was
gds_batch(c, path, w, m, ok, by, serial, epoch) ==
  IF ~ok THEN c
  ELSE [k \in CacheKeys |->
         IF k = path
         THEN [size |-> w.total_size, mtime |-> m,
               by |-> by, walk |-> serial, epoch |-> epoch]
         ELSE IF w.dir_path_to_size[k] # NoInt /\ getmtime(k) # NoInt
         THEN [size |-> w.dir_path_to_size[k], mtime |-> getmtime(k),
               by |-> by, walk |-> serial, epoch |-> epoch]
         ELSE c[k]]

\* get_directory_size recording a size of 0 for a path whose mtime it cannot
\* read
get_directory_size_unreadable(path, c, okL, okW, by, serial, epoch) ==
  LET m == getmtime(path)
      hit == gds_lookup(path, m, c, okL)
      w == gds_walk(path)
  IN IF m = NoInt
     THEN [size |-> 0,
           cache |-> IF path \in CacheKeys
                     THEN [c EXCEPT ![path] = [size |-> 0, mtime |-> 0, by |-> by,
                                               walk |-> serial, epoch |-> epoch]]
                     ELSE c,
           walked |-> FALSE, looked |-> FALSE]
     ELSE IF hit # NoInt
     THEN [size |-> hit, cache |-> c, walked |-> FALSE, looked |-> TRUE]
     ELSE [size |-> w.total_size,
           cache |-> gds_batch(c, path, w, m, okW, by, serial, epoch),
           walked |-> TRUE, looked |-> TRUE]

\* lines 188-288 run without interruption, as the application itself runs them
\* in _update_dir_view_ui.  The result: the size returned, the table
\* afterwards, whether the tree was walked, whether the table was read
get_directory_size(path, c, okL, okW, by, serial, epoch) ==
  LET m == getmtime(path)
      hit == gds_lookup(path, m, c, okL)
      w == gds_walk(path)
  IN IF m = NoInt
     THEN [size |-> 0, cache |-> c, walked |-> FALSE, looked |-> FALSE]
     ELSE IF hit # NoInt
     THEN [size |-> hit, cache |-> c, walked |-> FALSE, looked |-> TRUE]
     ELSE [size |-> w.total_size,
           cache |-> gds_batch(c, path, w, m, okW, by, serial, epoch),
           walked |-> TRUE, looked |-> TRUE]

(***************************************************************************)
(* Result rows and their sorting                                           *)
(***************************************************************************)
\* lines 645-654, 662-667, 554-559: one entry of dir_entries
Row(name, path, is_dir, size) ==
  [name |-> name, path |-> path, is_dir |-> is_dir, size |-> size]

\* the place of a one-letter name in the order of str
LetterRank(s) ==
  CASE s = "a" -> 1 [] s = "b" -> 2 [] s = "d" -> 3 [] s = "e" -> 4
    [] s = "f" -> 5 [] s = "g" -> 6 [] s = "h" -> 7 [] s = "l" -> 8
    [] s = "m" -> 9 [] s = "s" -> 10 [] s = "u" -> 11

\* line 770: str(e["name"]).lower() as a sort key; a name is a base name or,
\* in the target-directories view, the path of a root (one component)
name_key(e) == LetterRank(basename(e.name))

\* line 776: the size as a sort key, 0 when it is not an int
size_key(e) == IF e.size # NoInt THEN e.size ELSE 0

sort_key(e, column) == IF column = "name" THEN name_key(e) ELSE size_key(e)

\* sorted(entries, key, reverse): stable in both directions
RECURSIVE insert_sorted(_, _, _, _)
insert_sorted(s, e, column, reverse) ==
  IF Len(s) = 0 THEN <<e>>
  ELSE LET l == s[Len(s)]
           before == IF reverse
                     THEN sort_key(l, column) >= sort_key(e, column)
                     ELSE sort_key(l, column) <= sort_key(e, column)
       IN IF before THEN Append(s, e)
          ELSE Append(insert_sorted(SubSeq(s, 1, Len(s) - 1), e, column, reverse), l)

RECURSIVE sorted(_, _, _)
sorted(entries, column, reverse) ==
  IF Len(entries) = 0 THEN <<>>
  ELSE insert_sorted(sorted(SubSeq(entries, 1, Len(entries) - 1), column, reverse),
                     entries[Len(entries)], column, reverse)

\* the iids of the rows inserted in the Treeview
iids(entries) ==
  IF Len(entries) = 0 THEN <<>>
  ELSE [i \in 1..Len(entries) |-> entries[i].path]

(***************************************************************************)
(* The scan worker: _get_entries_process run by a multiprocessing.Process. *)
(* A process i is procs[i]; what it has put and the application has not    *)
(* yet taken is queues[i].                                                 *)
(***************************************************************************)
Progress(path) == [type |-> "progress", path |-> path, entries |-> <<>>]
Result(entries) == [type |-> "result", path |-> None, entries |-> entries]

\* no call of get_directory_size recorded
NoProbe == [path |-> None, size |-> NoInt, walked |-> FALSE, looked |-> FALSE,
            written |-> FALSE]

\* line 239: the messages put during a walk
ProgressOf(w) ==
  IF Len(w.progress) = 0 THEN <<>>
  ELSE [k \in 1..Len(w.progress) |-> Progress(w.progress[k])]

\* the outcomes a use of the cache database can have: it answers (TRUE) or,
\* while failures are left, raises (FALSE)
Oks == IF env.fails < MaxFail THEN {TRUE, FALSE} ELSE {TRUE}

\* the history after a use of the database with outcome ok.  env.dist is the
\* number of processes started before the last event that can make two scans
\* differ (a failure of the database, a clear, a change of the filesystem)
Failed(ok) ==
  IF ok THEN env
  ELSE [env EXCEPT !.fails = @ + 1, !.dist = Len(procs)]

\* the walk fields of a process that is not between a walk and its write
NoWalk == [total_size |-> 0, total_count |-> 0, progress |-> <<>>,
           dir_path_to_size |-> NoSizes]

\* multiprocessing.Process(target=_get_entries_process, args=(target, queue,
\* show)).start(): the process is at the top of the function
NewProc(target, is_list, show) ==
  [target |-> target, is_list |-> is_list, show |-> show,
   pc |-> "start", todo |-> <<>>, entries |-> <<>>,
   cur |-> None, m |-> NoInt, w |-> NoWalk,
   \* history: walks finished, puts made, the cache clears before the start,
   \* the clear-epochs of the cache entries whose size was used
   walks |-> 0, nprogress |-> 0, nresult |-> 0,
   epoch0 |-> env.clears, hits |-> {}]

Running(i) == procs[i].pc \in {"start", "loop", "write"}

\* gep_start taking the roots of a list from the last to the first
gep_start_reversed(i) ==
  /\ procs[i].pc = "start"
  /\ LET p == procs[i]
     IN procs' = [procs EXCEPT ![i] =
          IF p.is_list
          THEN [p EXCEPT !.pc = "loop",
                         !.todo = [k \in 1..Len(TargetDirs) |->
                                     TargetDirs[Len(TargetDirs) + 1 - k]]]
          ELSE IF p.target = None \/ ~isdir(p.target)
          THEN [p EXCEPT !.pc = "crashed"]
          ELSE [p EXCEPT !.pc = "loop", !.todo = listdir(p.target)]]
  /\ UNCHANGED <<exists, mtime, cache, app, queues, env>>

\* lines 613-622: target_paths.  os.listdir raises when the target is missing
\* or no directory, and iterating over None raises: the process dies with no
\* ("result", ...) put
gep_start(i) ==
  /\ procs[i].pc = "start"
  /\ LET p == procs[i]
     IN procs' = [procs EXCEPT ![i] =
          IF p.is_list
          THEN [p EXCEPT !.pc = "loop", !.todo = TargetDirs]
          ELSE IF p.target = None \/ ~isdir(p.target)
          THEN [p EXCEPT !.pc = "crashed"]
          ELSE [p EXCEPT !.pc = "loop", !.todo = listdir(p.target)]]
  /\ UNCHANGED <<exists, mtime, cache, app, queues, env>>

\* gep_row giving a file its size whatever show_dir_sizes is
gep_row_sized(p, target_path, is_dir, size) ==
  Row(IF p.is_list /\ is_dir THEN target_path ELSE <<basename(target_path)>>,
      target_path, is_dir, IF is_dir THEN size ELSE getsize(target_path))

\* the row appended for target_path with its size
gep_row(p, target_path, is_dir, size) ==
  Row(IF p.is_list /\ is_dir THEN target_path ELSE <<basename(target_path)>>,
      target_path, is_dir, size)

\* lines 626-668: one turn of the loop, up to the end of the walk when
\* get_directory_size walks; line 671 when the loop is over
gep_loop(i) ==
  /\ procs[i].pc = "loop"
  /\ LET p == procs[i]
         t == Head(p.todo)
         q == Append(queues[i], Progress(t))
         next == [p EXCEPT !.todo = Tail(p.todo), !.nprogress = @ + 1]
         m == getmtime(t)
     IN IF Len(p.todo) = 0
        THEN /\ queues' = [queues EXCEPT ![i] = Append(@, Result(p.entries))]
             /\ procs' = [procs EXCEPT ![i] =
                            [p EXCEPT !.pc = "done", !.nresult = @ + 1]]
             /\ env' = env
        ELSE IF ~path_exists(t)
        THEN /\ queues' = [queues EXCEPT ![i] = q]
             /\ procs' = [procs EXCEPT ![i] = next]
             /\ env' = env
        ELSE IF ~isdir(t)
        THEN /\ queues' = [queues EXCEPT ![i] = q]
             /\ procs' = [procs EXCEPT ![i] = [next EXCEPT !.entries =
                  Append(@, gep_row(p, t, FALSE,
                                    IF p.show THEN getsize(t) ELSE NoInt))]]
             /\ env' = env
        ELSE IF ~p.show
        THEN /\ queues' = [queues EXCEPT ![i] = q]
             /\ procs' = [procs EXCEPT ![i] = [next EXCEPT !.entries =
                  Append(@, gep_row(p, t, TRUE, NoInt))]]
             /\ env' = env
        ELSE IF m = NoInt
        THEN /\ queues' = [queues EXCEPT ![i] = q]
             /\ procs' = [procs EXCEPT ![i] = [next EXCEPT !.entries =
                  Append(@, gep_row(p, t, TRUE, 0))]]
             /\ env' = env
        ELSE \E ok \in Oks :
          LET hit == gds_lookup(t, m, cache, ok)
              w == gds_walk(t)
          IN /\ env' = Failed(ok)
             /\ IF hit # NoInt
                THEN /\ queues' = [queues EXCEPT ![i] = q]
                     /\ procs' = [procs EXCEPT ![i] =
                          [next EXCEPT !.entries = Append(@, gep_row(p, t, TRUE, hit)),
                                       !.hits = @ \cup {cache[t].epoch}]]
                ELSE /\ queues' = [queues EXCEPT ![i] = q \o ProgressOf(w)]
                     /\ procs' = [procs EXCEPT ![i] =
                          [next EXCEPT !.pc = "write", !.cur = t, !.m = m, !.w = w,
                                       !.nprogress = @ + Len(w.progress)]]
  /\ UNCHANGED <<exists, mtime, cache, app>>

\* gep_write committing row by row: the rows of the directories below cur are
\* committed in one step, the row of cur in the next
gep_write_rows(i) ==
  /\ procs[i].pc = "write"
  /\ \E ok \in Oks :
       LET p == procs[i]
       IN /\ env' = Failed(ok)
          /\ IF p.m # NoInt
             THEN /\ cache' = gds_batch(cache, M, p.w, p.m, ok, i, p.walks + 1, env.clears)
                  /\ procs' = [procs EXCEPT ![i] = [p EXCEPT !.m = NoInt]]
             ELSE /\ cache' = gds_batch(cache, p.cur, p.w, getmtime(p.cur), ok, i,
                                        p.walks + 1, env.clears)
                  /\ procs' = [procs EXCEPT ![i] =
                       [p EXCEPT !.pc = "loop", !.cur = None, !.w = NoWalk,
                                 !.walks = @ + 1,
                                 !.entries = Append(@, gep_row(p, p.cur, TRUE, p.w.total_size))]]
  /\ UNCHANGED <<exists, mtime, app, queues>>

\* lines 258-288 and 645-655: the batch of the walk is written in one
\* transaction, get_directory_size returns and the row is appended
gep_write(i) ==
  /\ procs[i].pc = "write"
  /\ \E ok \in Oks :
       LET p == procs[i]
       IN /\ cache' = gds_batch(cache, p.cur, p.w, p.m, ok, i, p.walks + 1, env.clears)
          /\ env' = Failed(ok)
          /\ procs' = [procs EXCEPT ![i] =
               [p EXCEPT !.pc = "loop", !.cur = None, !.m = NoInt, !.w = NoWalk,
                         !.walks = @ + 1,
                         !.entries = Append(@, gep_row(p, p.cur, TRUE, p.w.total_size))]]
  /\ UNCHANGED <<exists, mtime, app, queues>>

_get_entries_process(i) == gep_start(i) \/ gep_loop(i) \/ gep_write(i)

(***************************************************************************)
(* DiskCleanerApp.  app.process is 0 when the object has no attribute      *)
(* _process; app.queue is 0 when _queue is None and NoInt when the         *)
(* attribute was deleted.  app.tree holds the iids of the Treeview's rows, *)
(* app.polls the number of pending after(100, self._poll_queue) calls.     *)
(* Of the status label the model keeps the kind of text and the directory  *)
(* size shown, not the path of a progress message.                         *)
(***************************************************************************)
Status(text, size) == [text |-> text, size |-> size]

\* what a handler leaves: the fields of the object and, when it started a
\* process, the arguments of that process
Outcome(a, spawn, target, is_list) ==
  [app |-> a, spawn |-> spawn, target |-> target, is_list |-> is_list]

\* lines 524-576; id: the number of the process to start
refresh_list_view_by_target_dirs(a, id) ==
  IF a.loading THEN Outcome(a, FALSE, None, FALSE)
  ELSE IF a.show_dir_sizes
  THEN Outcome([a EXCEPT !.selected_dir_path = None, !.dir_entries = <<>>,
                         !.tree = <<>>, !.queue = id, !.process = id,
                         !.loading = TRUE, !.status = Status("Loading...", NoInt),
                         !.delete_btn = "disabled", !.polls = @ + 1],
               TRUE, None, TRUE)
  ELSE LET rows == [k \in 1..Len(TargetDirs) |->
                      Row(TargetDirs[k], TargetDirs[k], TRUE, NoInt)]
       IN Outcome([a EXCEPT !.selected_dir_path = None, !.dir_entries = rows,
                            !.tree = iids(rows),
                            !.status = Status("Directory size", NoInt),
                            !.delete_btn = "disabled"],
                  FALSE, None, FALSE)

\* lines 578-597
refresh_list_view_by_child_items(a, id) ==
  IF a.loading THEN Outcome(a, FALSE, None, FALSE)
  ELSE Outcome([a EXCEPT !.status = Status("Loading...", NoInt),
                         !.delete_btn = "disabled", !.tree = <<>>,
                         !.loading = TRUE, !.queue = id, !.process = id,
                         !.polls = @ + 1],
               TRUE, a.selected_dir_path, FALSE)

\* lines 519-522, 752-755
refresh_list_view(a, id) ==
  IF a.selected_dir_path = None
  THEN refresh_list_view_by_target_dirs(a, id)
  ELSE refresh_list_view_by_child_items(a, id)

\* the pairs (lookup answers, write answers) one call of get_directory_size
\* by the application can meet
OkPairs ==
  {pr \in {TRUE, FALSE} \X {TRUE, FALSE} :
     env.fails + (IF pr[1] THEN 0 ELSE 1) + (IF pr[2] THEN 0 ELSE 1) <= MaxFail}

\* lines 700-732.  The result: the fields afterwards and what the call of
\* get_directory_size (lines 724-727) did, when it was made
_update_dir_view_ui(a, entries, okL, okW) ==
  LET sized == a.show_dir_sizes /\ a.selected_dir_path # None
      g == IF sized
           THEN get_directory_size(a.selected_dir_path, cache, okL, okW,
                                   0, 0, env.clears)
           ELSE [size |-> NoInt, cache |-> cache, walked |-> FALSE, looked |-> FALSE]
  IN [app |-> [a EXCEPT !.dir_entries = entries, !.tree = iids(entries),
                        !.status = Status("Directory size", g.size),
                        !.delete_btn = "normal", !.loading = FALSE],
      g |-> g]

\* the state after a handler whose outcome is r: the process it started
Started(r) ==
  IF r.spawn
  THEN /\ Len(procs) < MaxWorkers
       /\ procs' = Append(procs, NewProc(r.target, r.is_list,
                                          r.is_list \/ r.app.show_dir_sizes))
       /\ queues' = Append(queues, <<>>)
  ELSE UNCHANGED <<procs, queues>>

\* the state after a call of _update_dir_view_ui with result u, made while the
\* database answered okL and okW
Updated(u, okL, okW) ==
  /\ ~okL => u.g.looked
  /\ ~okW => u.g.walked
  /\ cache' = u.g.cache
  /\ env' = [env EXCEPT
       !.fails = @ + (IF okL THEN 0 ELSE 1) + (IF okW THEN 0 ELSE 1),
       !.dist = IF okL /\ okW THEN @ ELSE Len(procs),
       !.ui_walked = @ \/ u.g.walked]

\* the number the next process gets
NextId == Len(procs) + 1

\* lines 673-698, one pending after() call running
_poll_queue ==
  /\ app.polls > 0
  /\ IF app.queue \in {NoInt, 0}
     THEN /\ app' = [app EXCEPT !.polls = @ - 1]
          /\ UNCHANGED <<cache, queues, env>>
     ELSE IF Len(queues[app.queue]) = 0
     THEN UNCHANGED <<app, cache, queues, env>>
     ELSE LET msg == Head(queues[app.queue])
          IN /\ queues' = [queues EXCEPT ![app.queue] = Tail(@)]
             /\ IF msg.type = "progress"
                THEN /\ app' = [app EXCEPT !.status = Status("Loading...", NoInt)]
                     /\ UNCHANGED <<cache, env>>
                ELSE \E pr \in OkPairs :
                  LET u == _update_dir_view_ui(app, msg.entries, pr[1], pr[2])
                  IN /\ Updated(u, pr[1], pr[2])
                     /\ app' = [u.app EXCEPT !.process = 0, !.queue = NoInt,
                                             !.polls = @ - 1]
  /\ UNCHANGED <<exists, mtime, procs>>

\* Process.terminate() on process i: a running process is killed where it is
terminate(ps, i) ==
  IF i # 0 /\ ps[i].pc \in {"start", "loop", "write"}
  THEN [ps EXCEPT ![i].pc = "killed"]
  ELSE ps

\* lines 734-755; the Checkbutton has inverted show_dir_sizes before the call
on_toggle_dir_sizes ==
  LET a1 == [app EXCEPT !.show_dir_sizes = ~@]
      a2 == IF a1.loading
            THEN [a1 EXCEPT !.loading = FALSE, !.status = Status("", NoInt),
                            !.delete_btn = "disabled", !.tree = <<>>]
            ELSE a1
      a3 == [a2 EXCEPT !.process = 0, !.queue = NoInt]
      r == refresh_list_view(a3, NextId)
  IN /\ app' = r.app
     /\ IF r.spawn
        THEN /\ Len(procs) < MaxWorkers
             /\ procs' = Append(terminate(procs, app.process),
                                NewProc(r.target, r.is_list, r.app.show_dir_sizes))
             /\ queues' = Append(queues, <<>>)
        ELSE /\ procs' = terminate(procs, app.process)
             /\ queues' = queues
     /\ UNCHANGED <<exists, mtime, cache, env>>

\* lines 757-783
on_tree_heading_click(column) ==
  LET rev == IF app.sort_column = column THEN ~app.sort_reverse ELSE FALSE
      a1 == [app EXCEPT !.sort_column = column, !.sort_reverse = rev]
      entries == sorted(app.dir_entries, column, rev)
  IN /\ \E pr \in OkPairs :
          LET u == _update_dir_view_ui(a1, entries, pr[1], pr[2])
          IN /\ Updated(u, pr[1], pr[2])
             /\ app' = u.app
     /\ UNCHANGED <<exists, mtime, procs, queues>>

\* the rows of the Treeview
TreeRows == {app.tree[k] : k \in 1..Len(app.tree)}

\* the rows at the places I, in the order of the Treeview
RECURSIVE pick(_, _, _)
pick(rows, I, k) ==
  IF k > Len(rows) THEN <<>>
  ELSE (IF k \in I THEN <<rows[k]>> ELSE <<>>) \o pick(rows, I, k + 1)

\* what tree.selection() can return when it is not empty
Selections ==
  {pick(app.tree, I, 1) :
     I \in {J \in SUBSET (1..Len(app.tree)) : J # {} /\ Cardinality(J) <= MaxSel}}

\* the entry of dir_entries with the path of a row (line 791)
entry_of(item) ==
  LET found == SelectSeq(app.dir_entries, LAMBDA e : e.path = item)
  IN IF Len(found) = 0 THEN Row(None, None, FALSE, NoInt) ELSE Head(found)

\* lines 785-799: a double click on the row item of the Treeview
on_tree_double_click(item) ==
  /\ LET entry == entry_of(item)
         r == refresh_list_view_by_child_items(
                [app EXCEPT !.selected_dir_path = entry.path], NextId)
     IN IF entry.is_dir
        THEN app' = r.app /\ Started(r)
        ELSE UNCHANGED <<app, procs, queues>>
  /\ UNCHANGED <<exists, mtime, cache, env>>

\* the paths under the breadcrumb buttons (lines 841-908): "" (here None) and
\* every directory from the target directory down to the parent of
\* selected_dir_path; none in the target-directories view
Breadcrumbs ==
  IF app.selected_dir_path = None THEN {}
  ELSE {None} \cup {SubSeq(app.selected_dir_path, 1, n) :
                      n \in 1..(Len(app.selected_dir_path) - 1)}

\* lines 921-929
on_breadcrumb_click(path) ==
  /\ path \in Breadcrumbs
  /\ LET r == IF path = None
              THEN refresh_list_view_by_target_dirs(app, NextId)
              ELSE IF path # app.selected_dir_path
              THEN refresh_list_view_by_child_items(
                     [app EXCEPT !.selected_dir_path = path], NextId)
              ELSE Outcome(app, FALSE, None, FALSE)
     IN app' = r.app /\ Started(r)
  /\ UNCHANGED <<exists, mtime, cache, env>>

\* clear_cache without the DELETE
clear_cache_keep(c, ok) == c

\* lines 509-516: DELETE FROM directory_size_cache, an exception swallowed
clear_cache(c, ok) == IF ok THEN [k \in CacheKeys |-> NoEntry] ELSE c

\* the history after a press of Clear Cache
Cleared(ok) ==
  [Failed(ok) EXCEPT !.clears = IF ok THEN @ + 1 ELSE @, !.dist = Len(procs)]

\* lines 507-522
on_clear_cache ==
  /\ env.clears < MaxClear
  /\ \E ok \in Oks :
       /\ cache' = clear_cache(cache, ok)
       /\ env' = Cleared(ok)
  /\ LET r == refresh_list_view(app, NextId)
     IN app' = r.app /\ Started(r)
  /\ UNCHANGED <<exists, mtime>>

(***************************************************************************)
(* Deletion                                                                *)
(***************************************************************************)
\* the nodes of the tree ex under node n, n included
Subtree(n, ex) == {x \in ex : startswith(x, n)}

\* os.lstat, os.path.islink and os.path.isdir on the tree ex, the tree as the
\* items before have left it
lexists_in(p, ex) ==
  /\ Lres(p) \in ex
  /\ (Len(p) > Len(AS) /\ startswith(p, AS)) => AS \in ex

islink_in(p, ex) == lexists_in(p, ex) /\ Kind(Lres(p)) \in {"symfile", "symdir"}

isdir_in(p, ex) ==
  /\ lexists_in(p, ex)
  /\ Final(p) \in ex
  /\ Final(p) \notin StatFails
  /\ Kind(Final(p)) = "dir"

\* the nodes one turn of the loop of delete_items (lines 293-300) removes:
\* shutil.rmtree for a directory (it raises on a symbolic link, and stops at
\* a file it cannot unlink, which the model lists last), os.remove otherwise
\* (it raises on a missing path); every exception is swallowed
deleted_by(item, ex) ==
  IF isdir_in(item, ex)
  THEN IF islink_in(item, ex) THEN {}
       ELSE {x \in Subtree(Lres(item), ex) :
               \A u \in StatFails \cap ex : ~startswith(u, x)}
  ELSE IF lexists_in(item, ex) /\ Lres(item) \notin StatFails THEN {Lres(item)}
  ELSE {}

\* the loop of lines 293-300 over the list items, from the tree ex
RECURSIVE delete_from(_, _)
delete_from(items, ex) ==
  IF Len(items) = 0 THEN ex
  ELSE delete_from(Tail(items), ex \ deleted_by(Head(items), ex))

\* lines 291-300.  The result: the nodes left and the mtimes, that of every
\* directory that lost an entry moved on
delete_items(items) ==
  LET left == delete_from(items, exists)
      gone == exists \ left
  IN [exists |-> left,
      mtime |-> [d \in DOMAIN mtime |->
                   IF d \in left /\ \E x \in gone : dirname(x) = d
                   THEN mtime[d] + 1 ELSE mtime[d]]]

\* lines 801-820: the button is enabled, the rows of selected are selected in
\* the Treeview and the user confirms
on_delete(selected) ==
  /\ app.delete_btn = "normal"
  /\ env.deletes < MaxDelete
  /\ env' = [env EXCEPT !.deletes = @ + 1, !.mut_at = Len(procs),
                         !.dist = Len(procs),
                         !.asked = selected, !.before = exists]
  /\ LET d == delete_items(selected)
         r == refresh_list_view_by_child_items(app, NextId)
     IN /\ exists' = d.exists
        /\ mtime' = d.mtime
        /\ app' = r.app
        /\ Started(r)
  /\ UNCHANGED cache

(***************************************************************************)
(* The filesystem changed by other programs: a file is removed from a      *)
(* directory or created in it, and the mtime of that directory moves on.   *)
(***************************************************************************)
Mutate ==
  /\ env.nmut < MaxMut
  /\ env' = [env EXCEPT !.nmut = @ + 1, !.mut_at = Len(procs),
                         !.dist = Len(procs), !.probe = NoProbe]
  /\ \/ /\ ADEH \in exists
        /\ exists' = exists \ {ADEH}
        /\ mtime' = [mtime EXCEPT ![ADE] = @ + 1]
     \/ /\ ADEH \notin exists
        /\ ADE \in exists
        /\ exists' = exists \cup {ADEH}
        /\ mtime' = [mtime EXCEPT ![ADE] = @ + 1]
  /\ UNCHANGED <<cache, app, procs, queues>>

(***************************************************************************)
(* The application from its start                                          *)
(***************************************************************************)
InitTree == {A, AD, ADE, ADEH, ADF, AG, AL, AS, B}

\* lines 306-321: the fields set by __init__, then the first
\* refresh_list_view_by_target_dirs with show_dir_sizes False
InitApp ==
  refresh_list_view_by_target_dirs(
    [selected_dir_path |-> None, dir_entries |-> <<>>, tree |-> <<>>,
     loading |-> FALSE, show_dir_sizes |-> FALSE,
     sort_column |-> "", sort_reverse |-> FALSE,
     delete_btn |-> "normal", status |-> Status("", NoInt),
     process |-> 0, queue |-> 0, polls |-> 0], 1).app

\* the history at the start, with nmut changes by other programs and fails
\* failures of the database already spent
Env0(nmut, fails) ==
  [nmut |-> nmut, clears |-> 0, fails |-> fails, deletes |-> 0,
   mut_at |-> 0, dist |-> 0, ui_walked |-> FALSE, probe |-> NoProbe,
   asked |-> <<>>, before |-> {}]

\* The application: the filesystem changes only by its own deletions and
\* the cache database always answers
Init ==
  /\ exists = InitTree
  /\ mtime = [d \in {A, AD, ADE} |-> 1]
  /\ cache = [k \in CacheKeys |-> NoEntry]
  /\ app = InitApp
  /\ procs = <<>>
  /\ queues = <<>>
  /\ env = Env0(MaxMut, MaxFail)

Next ==
  \/ _poll_queue
  \/ on_toggle_dir_sizes
  \/ \E column \in {"name", "size"} : on_tree_heading_click(column)
  \/ \E item \in TreeRows : on_tree_double_click(item)
  \/ \E path \in {None, A, AD, AS} : on_breadcrumb_click(path)
  \/ on_clear_cache
  \/ \E selected \in Selections : on_delete(selected)
  \/ \E i \in 1..Len(procs) : _get_entries_process(i)

Spec == Init /\ [][Next]_vars

(***************************************************************************)
(* The scan engine alone: a caller that asks for one scan after the other  *)
(* (the Process of lines 541-546 and 591-596), may terminate the scan in   *)
(* flight (line 744) and may clear the cache (lines 509-516), while other  *)
(* programs change the filesystem and the database may fail.               *)
(***************************************************************************)
\* every node exists, the file whose stat raises included
EngineTree == Nodes

\* lines 541-546, 591-596: a process is started when none is running
Scan(target, is_list, show) ==
  /\ Len(procs) < MaxScans
  /\ \A i \in 1..Len(procs) : ~Running(i)
  /\ procs' = Append(procs, NewProc(target, is_list, show))
  /\ queues' = Append(queues, <<>>)
  /\ UNCHANGED <<exists, mtime, cache, app, env>>

\* lines 742-747: the process in flight is terminated
Cancel ==
  /\ Len(procs) > 0
  /\ Running(Len(procs))
  /\ procs' = terminate(procs, Len(procs))
  /\ UNCHANGED <<exists, mtime, cache, app, queues, env>>

\* lines 509-516
ClearCache ==
  /\ env.clears < MaxClear
  /\ \E ok \in Oks :
       /\ cache' = clear_cache(cache, ok)
       /\ env' = Cleared(ok)
  /\ UNCHANGED <<exists, mtime, app, procs, queues>>

EngineInit ==
  /\ exists = EngineTree
  /\ mtime = [d \in {A, AD, ADE} |-> 1]
  /\ cache = [k \in CacheKeys |-> NoEntry]
  /\ app = InitApp
  /\ procs = <<>>
  /\ queues = <<>>
  /\ env = Env0(0, 0)

EngineNext ==
  \/ \E show \in BOOLEAN : Scan(None, TRUE, show)
  \/ \E target \in {A, AD}, show \in BOOLEAN : Scan(target, FALSE, show)
  \/ Cancel
  \/ ClearCache
  \/ Mutate
  \/ \E i \in 1..Len(procs) : _get_entries_process(i)

SpecEngine == EngineInit /\ [][EngineNext]_vars

(***************************************************************************)
(* get_directory_size alone, called on every tree the nodes can form.      *)
(***************************************************************************)
\* the trees: a node exists only in a directory that exists; the file root b
\* is in each of them (the root that does not exist is m)
Trees ==
  {t \in SUBSET Nodes : B \in t /\ \A n \in t : Len(n) > 1 => dirname(n) \in t}

\* lines 188-288: one call get_directory_size(path), recorded in env.probe
SizeOf(path) ==
  /\ \E pr \in OkPairs :
       LET g == get_directory_size(path, cache, pr[1], pr[2], 0, 0, env.clears)
       IN /\ ~pr[1] => g.looked
          /\ ~pr[2] => g.walked
          /\ cache' = g.cache
          /\ env' = [env EXCEPT
               !.fails = @ + (IF pr[1] THEN 0 ELSE 1) + (IF pr[2] THEN 0 ELSE 1),
               !.probe = [path |-> path, size |-> g.size,
                          walked |-> g.walked, looked |-> g.looked,
                          written |-> g.walked /\ pr[2]]]
  /\ UNCHANGED <<exists, mtime, app, procs, queues>>

WalkInit ==
  /\ exists \in Trees
  /\ mtime = [d \in {A, AD, ADE} |-> 1]
  /\ cache = [k \in CacheKeys |-> NoEntry]
  /\ app = InitApp
  /\ procs = <<>>
  /\ queues = <<>>
  /\ env = Env0(0, 0)

WalkNext ==
  \/ \E path \in {A, AD, ADE, AS, B, M} : SizeOf(path)
  \/ Mutate

SpecWalk == WalkInit /\ [][WalkNext]_vars

(***************************************************************************)
(* delete_items alone, called with every short list of paths on every tree *)
(***************************************************************************)
\* the paths a list can name: every node, and the path m that names nothing
ItemPaths == Nodes \cup {M}

\* the lists of different paths
ItemLists ==
  {<<x>> : x \in ItemPaths} \cup
  (IF MaxItems < 2 THEN {}
   ELSE {l \in {<<x, y>> : x \in ItemPaths, y \in ItemPaths} : l[1] # l[2]}) \cup
  (IF MaxItems < 3 THEN {}
   ELSE {l \in {<<A, y, z>> : y \in ItemPaths \ {A}, z \in ItemPaths \ {A}} :
           l[2] # l[3]})

\* lines 291-300: one call delete_items(items), recorded in env
Delete(items) ==
  /\ env.deletes < MaxDelete
  /\ env' = [env EXCEPT !.deletes = @ + 1, !.asked = items, !.before = exists]
  /\ LET d == delete_items(items)
     IN exists' = d.exists /\ mtime' = d.mtime
  /\ UNCHANGED <<cache, app, procs, queues>>

DeleteInit ==
  /\ exists \in Trees
  /\ mtime = [d \in {A, AD, ADE} |-> 1]
  /\ cache = [k \in CacheKeys |-> NoEntry]
  /\ app = InitApp
  /\ procs = <<>>
  /\ queues = <<>>
  /\ env = Env0(0, 0)

DeleteNext == \E items \in ItemLists : Delete(items)

SpecDelete == DeleteInit /\ [][DeleteNext]_vars

(***************************************************************************)
(* The table target_directories of the admin database: its rows are pairs  *)
(* of a platform and a path, and the pair is the primary key.  In this     *)
(* specification env holds the committed rows, the last call of            *)
(* save_target_directories and the last call of load_target_directories   *)
(* made after it.                                                          *)
(***************************************************************************)
\* paths in one call of save_target_directories
MaxDirs == 2

\* lines 55-60: the values of Platform
Platform == {"mac", "windows", "other"}

\* lines 44-48: the columns of target_directories
TargetColumns == {"platform", "path"}

\* line 80: the columns the INSERT of save_target_directories names
InsertColumns == {"platform", "dir"}

\* the paths the rows of the model hold
DirPaths == {A, B}

\* the rows the table can hold
TargetRows == [platform : Platform, path : DirPaths]

\* the lists save_target_directories is called with, repeated paths included
DirLists ==
  {<<>>} \cup {<<x>> : x \in DirPaths} \cup
  (IF MaxDirs < 2 THEN {} ELSE {<<x, y>> : x \in DirPaths, y \in DirPaths})

\* the database files the program can find: none, or one whose table has rows
DbFiles ==
  {[made |-> FALSE, rows |-> {}]} \cup
  {[made |-> TRUE, rows |-> r] : r \in SUBSET TargetRows}

\* lines 28-51: CREATE TABLE IF NOT EXISTS makes an empty table in a new
\* file and keeps the rows of a table that exists
init_admin_db(f) ==
  IF f.made THEN f.rows ELSE {}

\* line 77: DELETE FROM target_directories WHERE platform=?
sql_delete(t, platform) == {r \in t : r.platform # platform}

\* lines 79-82: INSERT INTO target_directories (cols) VALUES (?, ?).  The
\* statement raises when it names a column the table does not have, gives no
\* value to a NOT NULL column, or repeats a primary key
sql_insert(t, cols, platform, dir_path) ==
  LET row == [platform |-> platform, path |-> dir_path]
  IN IF cols # TargetColumns \/ row \in t
     THEN [rows |-> t, raised |-> TRUE]
     ELSE [rows |-> t \cup {row}, raised |-> FALSE]

\* lines 78-82: the loop over dirs, left by the first statement that raises
RECURSIVE save_inserts(_, _, _)
save_inserts(t, platform, dirs) ==
  IF Len(dirs) = 0 THEN [rows |-> t, raised |-> FALSE]
  ELSE LET r == sql_insert(t, InsertColumns, platform, Head(dirs))
       IN IF r.raised THEN r
          ELSE save_inserts(r.rows, platform, Tail(dirs))

\* lines 73-84: the committed rows after the call and whether it raised.  An
\* exception leaves the function before conn.commit() (line 83), so the
\* DELETE of line 77 is not committed either
save_target_directories(t, platform, dirs) ==
  LET r == save_inserts(sql_delete(t, platform), platform, dirs)
  IN IF r.raised THEN [rows |-> t, raised |-> TRUE] ELSE r

\* the lists without repetition of the members of set s
Orderings(s) ==
  {l \in [1..Cardinality(s) -> s] : \A i, j \in 1..Cardinality(s) :
                                       l[i] = l[j] => i = j}

\* lines 63-70: SELECT path FROM target_directories WHERE platform=? has no
\* ORDER BY: the lists the call can return
load_target_directories(t, platform) ==
  Orderings({r.path : r \in {x \in t : x.platform = platform}})

NoSave == [done |-> FALSE, platform |-> "", dirs |-> <<>>, raised |-> FALSE,
           before |-> {}]

NoLoad == [done |-> FALSE, platform |-> "", dirs |-> <<>>]

\* line 467: one call save_target_directories(platform, dirs)
Save(platform, dirs) ==
  /\ LET s == save_target_directories(env.rows, platform, dirs)
     IN env' = [rows |-> s.rows,
                saved |-> [done |-> TRUE, platform |-> platform, dirs |-> dirs,
                           raised |-> s.raised, before |-> env.rows],
                loaded |-> NoLoad]
  /\ UNCHANGED <<exists, mtime, cache, app, procs, queues>>

\* lines 451, 531, 857: one call load_target_directories(platform)
Load(platform) ==
  /\ \E l \in load_target_directories(env.rows, platform) :
       env' = [env EXCEPT !.loaded = [done |-> TRUE, platform |-> platform,
                                      dirs |-> l]]
  /\ UNCHANGED <<exists, mtime, cache, app, procs, queues>>

\* line 933: the database after init_admin_db
TargetsInit ==
  /\ exists = InitTree
  /\ mtime = [d \in {A, AD, ADE} |-> 1]
  /\ cache = [k \in CacheKeys |-> NoEntry]
  /\ app = InitApp
  /\ procs = <<>>
  /\ queues = <<>>
  /\ \E f \in DbFiles :
       env = [rows |-> init_admin_db(f), saved |-> NoSave, loaded |-> NoLoad]

TargetsNext ==
  \/ \E platform \in Platform, dirs \in DirLists : Save(platform, dirs)
  \/ \E platform \in Platform : Load(platform)

SpecTargets == TargetsInit /\ [][TargetsNext]_vars

(***************************************************************************)
(* What the specification asks of the program                              *)
(***************************************************************************)
RECURSIVE SumSizes(_)
SumSizes(fs) ==
  IF fs = {} THEN 0
  ELSE LET f == CHOOSE x \in fs : TRUE IN FileSize(f) + SumSizes(fs \ {f})

\* the regular files under directory root whose size can be read: no symbolic
\* link, and nothing behind a symbolic link inside the tree
FilesUnder(root) ==
  {f \in exists : /\ Kind(f) = "file"
                  /\ f \notin StatFails
                  /\ f # Final(root)
                  /\ startswith(f, Final(root))}

\* the sum of the sizes of the regular, non-symlinked files under root
TrueSize(root) == SumSizes(FilesUnder(root))

\* the processes that have not ended
InFlight == {i \in 1..Len(procs) : Running(i)}

\* C1: every scan that was started and not cancelled has delivered exactly
\* one ("result", ...) by the time its process has ended, whatever the target
\* was when the process ran
C1_OneResultPerScan ==
  \A i \in 1..Len(procs) :
    procs[i].pc \in {"done", "crashed"} => procs[i].nresult = 1

\* C2 as claimed: once a scan is cancelled the cache holds no entry that the
\* cancelled scan computed
C2_CancelLeavesNoEntry ==
  \A i \in 1..Len(procs) :
    procs[i].pc = "killed" => \A k \in CacheKeys : cache[k].by # i

\* C2 as amended: the entries a cancelled scan leaves in the cache belong to
\* the walks it finished before the cancellation, each written whole; the
\* walk the cancellation interrupted has written nothing
C2_CancelKeepsWholeBatches ==
  \A i \in 1..Len(procs) :
    procs[i].pc = "killed" =>
      \A k \in CacheKeys : cache[k].by = i => cache[k].walk <= procs[i].walks

\* a scan is cancelled between two children, after the batch of the first
C2_Witness ==
  \E i \in 1..Len(procs) :
    /\ procs[i].pc = "killed"
    /\ procs[i].walks > 0
    /\ \E k \in CacheKeys : cache[k].by = i

\* C3: at most one scan worker is in flight at any time
C3_OneWorkerInFlight == Cardinality(InFlight) <= 1

\* C4: a toggle of the size display terminates every scan in flight: no
\* process that ran before the toggle runs after it
C4_ToggleTerminatesScans ==
  [][app'.show_dir_sizes # app.show_dir_sizes =>
       \A i \in 1..Len(procs) : procs'[i].pc \notin {"start", "loop", "write"}]_vars

\* C5: a size of root computed by a walk is the sum of the sizes of the
\* regular, non-symlinked files under root
C5_WalkedSizeIsSumOfFiles ==
  env.probe.walked => env.probe.size = TrueSize(env.probe.path)

\* a walk of a tree that holds a symbolic link to a large file, a symbolic
\* link to a directory and files at two depths
C5_Witness ==
  /\ env.probe.walked
  /\ env.probe.path = A
  /\ {AL, AS, ADEH, ADF, AG} \subseteq exists
  /\ env.probe.size = 7

\* C6: a scan made after a file was removed from (or created in) a directory
\* reports, for that directory and for each of its ancestors, the size the
\* tree has now
C6_AncestorsReflectChange ==
  \A i \in 1..Len(procs) :
    (procs[i].pc = "done" /\ procs[i].show /\ env.nmut > 0 /\ env.mut_at < i) =>
      \A k \in 1..Len(procs[i].entries) :
        procs[i].entries[k].path \in {A, AD, ADE} =>
          procs[i].entries[k].size = TrueSize(procs[i].entries[k].path)

\* scan i is a sizing scan that repeats scan i - 1, and since scan i - 1
\* started the filesystem did not change, the cache was not cleared and the
\* database did not fail
Repeats(i) ==
  /\ i > 1
  /\ procs[i].pc = "done" /\ procs[i - 1].pc = "done"
  /\ procs[i].show /\ procs[i - 1].show
  /\ procs[i].target = procs[i - 1].target
  /\ procs[i].is_list = procs[i - 1].is_list
  /\ env.dist < i - 1

\* C7: the second of two such scans returns the rows of the first, and walks
\* no directory
C7_SecondScanIdentical ==
  \A i \in 1..Len(procs) :
    Repeats(i) => /\ procs[i].entries = procs[i - 1].entries
                  /\ procs[i].walks = 0

\* a second scan of the directory a whose directory rows came from the cache
C7_Witness ==
  \E i \in 1..Len(procs) :
    /\ Repeats(i)
    /\ procs[i].target = A
    /\ procs[i - 1].walks > 0
    /\ procs[i].hits # {}

\* C8: a clear of the cache that the database carries out leaves no entry,
\* and no scan started after a clear takes a size from an entry written
\* before that clear
C8_NoSizeFromBeforeClear ==
  [][/\ env'.clears > env.clears => \A k \in CacheKeys : cache'[k] = NoEntry
     /\ \A i \in 1..Len(procs') :
          \A e \in procs'[i].hits : e >= procs'[i].epoch0]_vars

\* a scan started after a clear is served from the cache
C8_Witness ==
  \E i \in 1..Len(procs) : procs[i].epoch0 > 0 /\ procs[i].hits # {}

\* C9: no handler of the application walks a directory tree
C9_NoWalkByCaller == ~env.ui_walked

\* C10: a target that does not exist is left out of the rows and the scan of
\* it completes
C10_MissingTargetSkipped ==
  /\ \A k \in 1..Len(app.dir_entries) : path_exists(app.dir_entries[k].path)
  /\ \A i \in 1..Len(procs) :
       procs[i].pc = "crashed" => path_exists(procs[i].target)


\* the paths of the rows of a result
paths_of(entries) ==
  IF Len(entries) = 0 THEN <<>>
  ELSE [k \in 1..Len(entries) |-> entries[k].path]

\* C11: the rows of a finished scan of the configured roots are the roots
\* that exist, each once, in the order of the configured list
C11_RootsInOrder ==
  \A i \in 1..Len(procs) :
    (procs[i].pc = "done" /\ procs[i].is_list) =>
      paths_of(procs[i].entries) = SelectSeq(TargetDirs, LAMBDA r : path_exists(r))

\* a finished scan of the roots with sizes whose first row is the smaller one
C11_Witness ==
  \E i \in 1..Len(procs) :
    /\ procs[i].pc = "done" /\ procs[i].is_list /\ procs[i].show
    /\ Len(procs[i].entries) = 2
    /\ procs[i].entries[1].path = A
    /\ procs[i].entries[1].size < procs[i].entries[2].size


\* an item that could be deleted from the tree ex: it is there, and when it
\* is a directory (not a link to one) nothing in it resists unlinking
Deletable(item, ex) ==
  /\ item \in ex
  /\ item \notin StatFails
  /\ Kind(item) = "dir" => \A u \in StatFails \cap ex : ~startswith(u, item)

\* C12: after delete_items every item of the list that could be deleted is
\* gone, whatever the other items of the list are
C12_DeletableItemsRemoved ==
  \A k \in 1..Len(env.asked) :
    Deletable(env.asked[k], env.before) => env.asked[k] \notin exists


\* C13: a step of a scan in which the cache database fails does not end the
\* scan.  After a failed lookup the directory has been walked and its size
\* computed; after a failed write the table is as it was and the row of the
\* directory carries the size the walk computed
C13_StoreFailureDegrades ==
  [][\A i \in 1..Len(procs) :
       (env'.fails > env.fails /\ procs'[i] # procs[i]) =>
         /\ cache' = cache
         /\ \/ /\ procs[i].pc = "loop"
               /\ procs'[i].pc = "write"
               /\ procs'[i].w.total_size = TrueSize(procs'[i].cur)
            \/ /\ procs[i].pc = "write"
               /\ procs'[i].pc = "loop"
               /\ procs'[i].entries =
                    Append(procs[i].entries,
                           gep_row(procs[i], procs[i].cur, TRUE,
                                   procs[i].w.total_size))]_vars

\* a scan has finished with the size of a directory it walked in its rows,
\* the write after the walk failed and the table is empty
C13_Witness ==
  \E i \in 1..Len(procs) :
    /\ procs[i].pc = "done"
    /\ procs[i].walks > 0
    /\ \E k \in 1..Len(procs[i].entries) :
         procs[i].entries[k].is_dir /\ procs[i].entries[k].size > 0
    /\ env.fails > 0
    /\ env.clears = 0
    /\ \A k \in CacheKeys : cache[k] = NoEntry


\* the directories below cur for which the walk of process i has a size and
\* whose mtime can be read
BatchKeys(i) ==
  {k \in CacheKeys \ {procs[i].cur} :
     procs[i].w.dir_path_to_size[k] # NoInt /\ getmtime(k) # NoInt}

\* C14: the step that ends a walk leaves the table as it was or holds the
\* whole batch of the walk: the row of the walked directory with its total and
\* the mtime read before the walk, a row with its own total for every
\* directory below it, and every other row as before
C14_BatchAllOrNothing ==
  [][\A i \in 1..Len(procs) :
       (procs[i].pc = "write" /\ procs'[i].pc # "write") =>
         \/ cache' = cache
         \/ /\ cache'[procs[i].cur].size = procs[i].w.total_size
            /\ cache'[procs[i].cur].mtime = procs[i].m
            /\ cache'[procs[i].cur].by = i
            /\ \A k \in BatchKeys(i) :
                 /\ cache'[k].size = procs[i].w.dir_path_to_size[k]
                 /\ cache'[k].mtime = getmtime(k)
                 /\ cache'[k].by = i
            /\ \A k \in CacheKeys \ (BatchKeys(i) \cup {procs[i].cur}) :
                 cache'[k] = cache[k]]_vars

\* the table holds the three rows of one walk of a
C14_Witness ==
  \E i \in 1..Len(procs) :
    /\ cache[A].by = i /\ cache[AD].by = i /\ cache[ADE].by = i
    /\ cache[A].walk = cache[AD].walk /\ cache[AD].walk = cache[ADE].walk
    /\ cache[A].size = 7 /\ cache[AD].size = 6 /\ cache[ADE].size = 4


\* C15: a scan without sizes never uses the cache database and never walks:
\* none of its steps changes the table or meets a failure of the database or
\* leaves it between a walk and a write; its rows are children of its target
\* (or configured roots) and carry no size
C15_NoSizesNoCache ==
  [][\A i \in 1..Len(procs) :
       (~procs[i].show /\ procs'[i] # procs[i]) =>
         /\ cache' = cache
         /\ env'.fails = env.fails
         /\ procs'[i].pc # "write"
         /\ procs'[i].walks = 0 /\ procs'[i].hits = {}
         /\ \A k \in 1..Len(procs'[i].entries) :
              /\ procs'[i].entries[k].size = NoInt
              /\ IF procs[i].is_list
                 THEN Len(procs'[i].entries[k].path) = 1
                 ELSE dirname(procs'[i].entries[k].path) = procs[i].target]_vars

\* a scan of a without sizes has finished with a row for a file and a row
\* for the directory a/d, whose size is in the table
C15_Witness ==
  \E i \in 1..Len(procs) :
    /\ procs[i].pc = "done" /\ ~procs[i].show /\ procs[i].target = A
    /\ cache[AD].size # NoInt
    /\ \E k \in 1..Len(procs[i].entries) :
         procs[i].entries[k].path = AD /\ procs[i].entries[k].size = NoInt
    /\ \E k \in 1..Len(procs[i].entries) :
         procs[i].entries[k].path = AG /\ procs[i].entries[k].size = NoInt


\* C16: a walk of a made while the table holds a row of a/d with the mtime
\* a/d has takes the size of a/d from that row and visits no file under a/d
C16_WalkReusesCachedSubtree ==
  \A i \in 1..Len(procs) :
    (/\ procs[i].pc = "write" /\ procs[i].cur = A
     /\ cache[AD].size # NoInt /\ cache[AD].mtime = getmtime(AD)) =>
      /\ procs[i].w.total_count = Cardinality(FilesUnder(A) \ FilesUnder(AD))
      /\ procs[i].w.total_size =
           cache[AD].size + SumSizes(FilesUnder(A) \ FilesUnder(AD))


\* the directories a walk of root has a row for: root, and every directory
\* under root (not behind a symbolic link) with a counted file beneath it
Between(root) ==
  {k \in CacheKeys :
     \/ k = root
     \/ /\ k # root /\ startswith(k, root)
        /\ k \in exists /\ Kind(k) = "dir"
        /\ FilesUnder(k) # {}}

\* C17: after a walk of root whose batch was written, the row of root and of
\* every directory between a counted file and root holds the sum of the sizes
\* of the counted files beneath that directory, the size a walk of that
\* directory alone computes on this tree
C17_BatchSizesAreSubtreeSums ==
  env.probe.written =>
    \A k \in Between(env.probe.path) : cache[k].size = TrueSize(k)

\* a walk of a has written the rows of a, a/d and a/d/e
C17_Witness ==
  /\ env.probe.written
  /\ env.probe.path = A
  /\ {ADEH, ADF, ADU, AG, AL, AS} \subseteq exists
  /\ cache[A].size = 7 /\ cache[AD].size = 6 /\ cache[ADE].size = 4


\* C18: a call for a path whose mtime cannot be read returns 0 without a use
\* of the cache database: the table is not read, no walk is made and no row
\* is changed
C18_UnreadableRootIsZero ==
  [][(env'.probe.path # None /\ ~StatOk(env'.probe.path)) =>
       /\ env'.probe.size = 0
       /\ ~env'.probe.looked /\ ~env'.probe.walked
       /\ env'.fails = env.fails
       /\ cache' = cache]_vars

\* a call for the directory a on a tree without it, and for a link whose
\* target is gone
C18_Witness ==
  /\ env.probe.path \in {A, AS}
  /\ env.probe.path = A => A \notin exists
  /\ env.probe.path = AS => (AS \in exists /\ ADE \notin exists)
  /\ env.probe.size = 0
  /\ ~env.probe.looked


\* the regular files under directory root, those whose stat raises included
AllFilesUnder(root) ==
  {f \in exists : /\ Kind(f) = "file"
                  /\ f # Final(root)
                  /\ startswith(f, Final(root))}

\* C19: a walk of a tree with a file whose stat raises returns the sum of the
\* sizes of all the other regular files, the files listed after that file
\* included, and the rows written for root and for the directories above the
\* counted files hold the sums of the same files
C19_UnreadableFileExcluded ==
  (env.probe.walked /\ AllFilesUnder(env.probe.path) \cap StatFails # {}) =>
    /\ env.probe.size = SumSizes(AllFilesUnder(env.probe.path) \ StatFails)
    /\ env.probe.written =>
         \A k \in Between(env.probe.path) :
           cache[k].size = SumSizes(AllFilesUnder(k) \ StatFails)

\* a walk of a with the unreadable a/d/u, files listed before it (a/d/e/h,
\* a/d/f) and a file listed after it (a/g)
C19_Witness ==
  /\ env.probe.written
  /\ env.probe.path = A
  /\ {ADEH, ADF, ADU, AG} \subseteq exists
  /\ env.probe.size = 7
  /\ cache[AD].size = 6


\* C20: a scan whose single target is a regular file ends with a result
\* whose row is that file, and the table never holds a row for the file root b
C20_FileTargetBypasses ==
  /\ \A i \in 1..Len(procs) :
       (/\ ~procs[i].is_list
        /\ procs[i].target \in exists /\ Kind(procs[i].target) = "file"
        /\ procs[i].pc \notin {"start", "loop", "write", "killed"}) =>
         /\ procs[i].pc = "done"
         /\ \E k \in 1..Len(procs[i].entries) :
              procs[i].entries[k].path = procs[i].target
  /\ cache[B].size = NoInt


\* C21: the application is never left loading with the process it waits for
\* dead and nothing in the queue it polls: from such a state no step of a
\* process and no run of _poll_queue ends the loading, only an event of the
\* user does
C21_LoadingNeverStuck ==
  ~(/\ app.loading
    /\ app.process # 0
    /\ app.queue = app.process
    /\ procs[app.process].pc = "crashed"
    /\ procs[app.process].nresult = 0
    /\ Len(queues[app.queue]) = 0)


\* C22: while a process is running the application is loading and the
\* Delete button is disabled, and the button is enabled only when the
\* application is not loading
C22_LoadingWhileRunning ==
  /\ \A i \in 1..Len(procs) :
       Running(i) => (app.loading /\ app.delete_btn = "disabled")
  /\ app.delete_btn = "normal" => ~app.loading


\* the rows are a listing of the location sel: configured roots when there is
\* none, children of sel otherwise
ListingOf(rows, sel) ==
  \A k \in 1..Len(rows) :
    IF sel = None THEN Len(rows[k].path) = 1
    ELSE dirname(rows[k].path) = sel

\* C23: when _poll_queue takes a result from the queue and applies it, the
\* rows then shown are a listing of the location selected_dir_path then names
C23_ResultMatchesSelection ==
  [][(/\ app.queue \notin {NoInt, 0}
      /\ Len(queues[app.queue]) > 0
      /\ Head(queues[app.queue]).type = "result"
      /\ queues'[app.queue] = Tail(queues[app.queue])) =>
       ListingOf(app'.dir_entries, app'.selected_dir_path)]_vars


\* C24: an entry of a directory whose own files other programs change holds
\* the mtime read before its files were counted, so an entry that matches the
\* mtime the directory has now holds the size of the files it has now: a
\* change during the walk leaves an entry the next scan does not use
C24_EntryHoldsMtimeBeforeWalk ==
  \A k \in {ADE, AS} :
    (cache[k].size # NoInt /\ cache[k].mtime = getmtime(k)) =>
      cache[k].size = TrueSize(k)


\* the sum of the sizes of the rows
RECURSIVE RowSum(_)
RowSum(rows) ==
  IF Len(rows) = 0 THEN 0 ELSE Head(rows).size + RowSum(Tail(rows))

\* C25: when the result of a sizing scan of the selected directory, made
\* without a cache hit, is applied and the size of that directory is computed
\* without a cache hit, the directory size shown is the sum of the sizes of
\* the rows
C25_SizeIsSumOfRows ==
  [][(/\ app.queue \notin {NoInt, 0}
      /\ Len(queues[app.queue]) > 0
      /\ Head(queues[app.queue]).type = "result"
      /\ queues'[app.queue] = Tail(queues[app.queue])
      /\ app.show_dir_sizes
      /\ procs[app.queue].show
      /\ ~procs[app.queue].is_list
      /\ procs[app.queue].target = app.selected_dir_path
      /\ procs[app.queue].hits = {}
      /\ getmtime(app.selected_dir_path) # NoInt
      /\ gds_lookup(app.selected_dir_path, getmtime(app.selected_dir_path),
                    cache, TRUE) = NoInt) =>
       app'.status.size = RowSum(app'.dir_entries)]_vars


\* the paths of the rows of platform q in table t
PathsFor(t, q) == {r.path : r \in {x \in t : x.platform = q}}

\* C26: load_target_directories(platform) after
\* save_target_directories(platform, dirs) returns dirs, and the rows of the
\* other platforms are those the table had before the save
C26_SaveLoadRoundTrip ==
  (env.saved.done /\ env.loaded.done /\ env.loaded.platform = env.saved.platform) =>
    /\ env.loaded.dirs = env.saved.dirs
    /\ \A q \in Platform \ {env.saved.platform} :
         PathsFor(env.rows, q) = PathsFor(env.saved.before, q)

====
